---- MODULE Spec2Model ----
(***************************************************************************)
(* A model of the Global Configuration Dashboard demo:                     *)
(*   - the server-of-record store `db` with the two server actions         *)
(*     updateUserCurrency / toggleFeatureFlag and the reader               *)
(*     getServerPreferences (src/app/GlobalConfigDashboard.jsx 594-713);   *)
(*   - the configuration derivation of GlobalConfigurationPage             *)
(*     (src/app/page.js 143-187) and the client container UserProvider     *)
(*     (src/app/GlobalConfigDashboard.jsx 46-107).                         *)
(*                                                                         *)
(* JavaScript values are modelled as strings: "true", "false",             *)
(* "undefined", "null" stand for the JS values of those names, any other   *)
(* string for the JS string itself.                                        *)
(*                                                                         *)
(* Time is counted in slots of 100 ms.  Every awaited setTimeout is a      *)
(* timer with a number of remaining slots; Tick lets one slot pass when no *)
(* timer is due.  Timers of one duration fire in the order they were set   *)
(* (one timer list per duration in the runtime); due timers of different   *)
(* durations fire in any order.  The code after an await runs to           *)
(* completion in one step: JavaScript is single-threaded.                  *)
(***************************************************************************)
EXTENDS Integers, Sequences, FiniteSets

VARIABLES
    db,                 \* the module-level object `db`
    calls,              \* every server call made so far, in invocation order
    invalidations,      \* the revalidatePath calls made so far, in order
    seq,                \* number of invocation/completion events so far
    AUTH_TOKEN,         \* the simulated auth token of the request
    GEO_COUNTRY_CODE,   \* the simulated geo code of the request
    serverInitialData,  \* the record the page hands to DataFlowVisualization
    mounted,            \* whether a UserProvider is rendered
    state,              \* the useState value of UserProvider
    pending,            \* state updaters queued by setState, not yet applied
    consumed,           \* the outcome of the latest useUserContext call
    hist,               \* clicks and renders since the page was loaded
    shown,              \* the comparison line DataFlowVisualization shows
    page                \* what ServerActionsDemoPage rendered last

vars == <<db, calls, invalidations, seq, AUTH_TOKEN, GEO_COUNTRY_CODE,
          serverInitialData, mounted, state, pending, consumed, hist, shown,
          page>>

storeVars == <<db, calls, invalidations, seq, page>>
pageVars == <<AUTH_TOKEN, GEO_COUNTRY_CODE, serverInitialData, mounted, state,
              pending, consumed, hist, shown>>

----------------------------------------------------------------------------
(* Bounds of the model *)

\* server calls (actions and reads) made in one behaviour
MaxCalls == 3

\* state updaters queued before UserProvider renders again
MaxPending == 3

\* clicks on the two buttons of CurrencyToggle after one load of the page
MaxClicks == 7

----------------------------------------------------------------------------
(* JavaScript value conversions *)

Falsy == {"false", "undefined", "null", "0", ""}

\* ToBoolean of the language: every value outside the falsy ones is truthy
ToBoolean(v) == v \notin Falsy

\* Boolean(v)
Boolean(v) == IF ToBoolean(v) THEN "true" ELSE "false"

\* !v
JSNot(v) == IF ToBoolean(v) THEN "false" ELSE "true"

\* a property key is the string of the value used as key
ToPropertyKey(v) == v

----------------------------------------------------------------------------
(* The simulated database *)

FlagKeys == {"currencyToggleEnabled", "x"}

\* const db = { USER_PREFERENCES: {...}, FEATURE_FLAGS: {...} };
\* a flag that is not a property of FEATURE_FLAGS reads as undefined
dbInit ==
    [USER_PREFERENCES |-> [currency |-> "USD", theme |-> "light"],
     FEATURE_FLAGS |-> [k \in FlagKeys |->
                          IF k = "currencyToggleEnabled" THEN "true"
                          ELSE "undefined"]]

\* simulated latencies, in slots of 100 ms
ReadLatency == 1
WriteLatency == 5
ToggleLatency == 3

\* the path both server actions revalidate
DemoPath == "/server-actions-demo"

\* form submissions: a FormData is the set of its fields
CurrencyValues == {"EUR", "XXX"}
FlagNameValues == {"currencyToggleEnabled", "x"}
CurrencyForms == {[currency |-> c] : c \in CurrencyValues} \cup {[other |-> "1"]}
FlagForms == {[flagName |-> f] : f \in FlagNameValues}

\* formData.get(name): the field's value, null when the form has no such field
FormDataGet(formData, name) ==
    IF name \in DOMAIN formData THEN formData[name] ELSE "null"

\* what an async function without a return statement resolves to
NoResult ==
    [currency |-> "undefined", theme |-> "undefined",
     currencyToggleEnabled |-> "undefined"]

\* A call that has just been made: its timer is set, nothing else has happened.
\*   from:   the store's value of the field the call is about when the call
\*           was made (what updateUserCurrency logs as `from`)
\*   before: that value just before the call's write; wrote: the value written
\*   start, end: the places of the call's two steps among all steps so far
NewCall(kind, arg, from, latency) ==
    [kind |-> kind, arg |-> arg, from |-> from, before |-> "undefined",
     wrote |-> "undefined", pc |-> "delay", remaining |-> latency,
     start |-> seq + 1, end |-> 0, outcome |-> "pending", result |-> NoResult]

InFlight == {i \in 1..Len(calls) : calls[i].pc = "delay"}

\* mutant: a timer waits for every other call in flight of its kind, itself
\* included
DueStrict(i) ==
    /\ i \in InFlight
    /\ calls[i].remaining = 0
    /\ \A j \in InFlight : calls[j].kind = calls[i].kind => i < j

\* the timer of call i is the next one of its duration to fire
Due(i) ==
    /\ i \in InFlight
    /\ calls[i].remaining = 0
    /\ \A j \in InFlight : calls[j].kind = calls[i].kind => i <= j

Finish(i, before, wrote, result) ==
    [calls EXCEPT ![i] = [@ EXCEPT !.pc = "done", !.end = seq + 1,
                                   !.before = before, !.wrote = wrote,
                                   !.outcome = "fulfilled",
                                   !.result = result]]

\* revalidatePath(path), called by call i while the store is `store`
revalidatePath(i, path, store) ==
    Append(invalidations, [by |-> i, path |-> path, seen |-> store])

----------------------------------------------------------------------------
(* getServerPreferences *)

\* mutant: the object of the first render is returned again (a memoized read)
SnapshotMemoized(store) ==
    [currency |-> dbInit.USER_PREFERENCES.currency,
     theme |-> dbInit.USER_PREFERENCES.theme,
     currencyToggleEnabled |-> dbInit.FEATURE_FLAGS["currencyToggleEnabled"]]

\* mutant: the flag comes from a copy taken at start, the rest from the store
SnapshotTorn(store) ==
    [currency |-> store.USER_PREFERENCES.currency,
     theme |-> store.USER_PREFERENCES.theme,
     currencyToggleEnabled |-> dbInit.FEATURE_FLAGS["currencyToggleEnabled"]]

\* the object returned after the await
Snapshot(store) ==
    [currency |-> store.USER_PREFERENCES.currency,
     theme |-> store.USER_PREFERENCES.theme,
     currencyToggleEnabled |-> store.FEATURE_FLAGS["currencyToggleEnabled"]]

\* the call, up to its await
getServerPreferences ==
    /\ Len(calls) < MaxCalls
    /\ calls' = Append(calls, NewCall("getServerPreferences", "undefined",
                                      "undefined", ReadLatency))
    /\ seq' = seq + 1
    /\ UNCHANGED <<db, invalidations>>
    /\ UNCHANGED pageVars
    /\ UNCHANGED page

\* the rest of the call, once its timer has fired
\* mutant: the status card shows the values the module was loaded with
StatusCardCached(store) ==
    [currency |-> dbInit.USER_PREFERENCES.currency,
     theme |-> dbInit.USER_PREFERENCES.theme,
     flag |-> IF ToBoolean(dbInit.FEATURE_FLAGS["currencyToggleEnabled"])
              THEN "ENABLED" ELSE "DISABLED"]

\* the "Server Component Status" card: db read in the JSX of the page
StatusCard(store) ==
    [currency |-> store.USER_PREFERENCES.currency,
     theme |-> store.USER_PREFERENCES.theme,
     flag |-> IF ToBoolean(store.FEATURE_FLAGS["currencyToggleEnabled"])
              THEN "ENABLED" ELSE "DISABLED"]

\* mutant: the currency form is rendered whatever the flag is
PreferencesManagerUngated(props) ==
    [currency |-> props.currency,
     theme |-> props.theme,
     currencyForm |-> TRUE,
     notice |-> ~ToBoolean(props.currencyToggleEnabled),
     flagForm |-> TRUE,
     badge |-> IF ToBoolean(props.currencyToggleEnabled)
               THEN "Enabled" ELSE "Disabled"]

\* PreferencesManager: the values shown, and which of the currency form, the
\* "Feature Disabled" notice and the flag form are in its output
PreferencesManager(props) ==
    [currency |-> props.currency,
     theme |-> props.theme,
     currencyForm |-> ToBoolean(props.currencyToggleEnabled),
     notice |-> ~ToBoolean(props.currencyToggleEnabled),
     flagForm |-> TRUE,
     badge |-> IF ToBoolean(props.currencyToggleEnabled)
               THEN "Enabled" ELSE "Disabled"]

\* the output of ServerActionsDemoPage for call i, once getServerPreferences
\* has returned `preferences`, with the store as it is then
ServerActionsDemoPage(i, preferences, store) ==
    [rendered |-> TRUE,
     by |-> i,
     card |-> StatusCard(store),
     props |-> [currency |-> preferences.currency,
                theme |-> preferences.theme,
                currencyToggleEnabled |-> preferences.currencyToggleEnabled],
     manager |-> PreferencesManager(
                    [currency |-> preferences.currency,
                     theme |-> preferences.theme,
                     currencyToggleEnabled |-> preferences.currencyToggleEnabled])]

NoPage ==
    [rendered |-> FALSE,
     by |-> 0,
     card |-> [currency |-> "undefined", theme |-> "undefined",
               flag |-> "undefined"],
     props |-> NoResult,
     manager |-> [currency |-> "undefined", theme |-> "undefined",
                  currencyForm |-> FALSE, notice |-> FALSE, flagForm |-> FALSE,
                  badge |-> "undefined"]]

\* The timer of getServerPreferences has fired: the function returns its
\* snapshot and ServerActionsDemoPage, which awaits it, goes on to build its
\* output. The two continuations are promise reactions of one timer callback;
\* no other timer callback runs between them.
getServerPreferencesResume(i) ==
    /\ Due(i)
    /\ calls[i].kind = "getServerPreferences"
    /\ LET preferences == Snapshot(db)
       IN /\ calls' = Finish(i, "undefined", "undefined", preferences)
          /\ page' = ServerActionsDemoPage(i, preferences, db)
    /\ seq' = seq + 1
    /\ UNCHANGED <<db, invalidations>>
    /\ UNCHANGED pageVars

----------------------------------------------------------------------------
(* updateUserCurrency *)

\* mutant: a value outside the known currencies is dropped
WriteCurrencyValidated(store, newCurrency) ==
    IF newCurrency \in {"USD", "EUR", "GBP", "JPY", "CAD"}
    THEN [store EXCEPT !.USER_PREFERENCES.currency = newCurrency]
    ELSE store

\* mutant: the write goes through only while the currency is the one of start
WriteCurrencyFirstWins(store, newCurrency) ==
    IF store.USER_PREFERENCES.currency = dbInit.USER_PREFERENCES.currency
    THEN [store EXCEPT !.USER_PREFERENCES.currency = newCurrency]
    ELSE store

\* mutant: the write is skipped while currencyToggleEnabled is off
WriteCurrencyGated(store, newCurrency) ==
    IF ToBoolean(store.FEATURE_FLAGS["currencyToggleEnabled"])
    THEN [store EXCEPT !.USER_PREFERENCES.currency = newCurrency]
    ELSE store

\* mutant: the whole USER_PREFERENCES object is replaced by { currency }
WriteCurrencyReplace(store, newCurrency) ==
    [store EXCEPT !.USER_PREFERENCES =
                      [currency |-> newCurrency, theme |-> "undefined"]]

\* db.USER_PREFERENCES.currency = newCurrency
WriteCurrency(store, newCurrency) ==
    [store EXCEPT !.USER_PREFERENCES.currency = newCurrency]

\* mutant: the write is made before the await
updateUserCurrencyEager(formData) ==
    /\ Len(calls) < MaxCalls
    /\ LET newCurrency == FormDataGet(formData, "currency")
       IN /\ calls' = Append(calls, NewCall("updateUserCurrency", newCurrency,
                                            db.USER_PREFERENCES.currency,
                                            WriteLatency))
          /\ db' = [db EXCEPT !.USER_PREFERENCES.currency = newCurrency]
    /\ seq' = seq + 1
    /\ UNCHANGED invalidations
    /\ UNCHANGED pageVars
    /\ UNCHANGED page

\* the action, up to its await
updateUserCurrency(formData) ==
    /\ Len(calls) < MaxCalls
    /\ LET newCurrency == FormDataGet(formData, "currency")
       IN calls' = Append(calls, NewCall("updateUserCurrency", newCurrency,
                                         db.USER_PREFERENCES.currency,
                                         WriteLatency))
    /\ seq' = seq + 1
    /\ UNCHANGED <<db, invalidations>>
    /\ UNCHANGED pageVars
    /\ UNCHANGED page

\* mutant: revalidatePath is called before the write
UpdateCurrencyEffectNotifyFirst(store, newCurrency) ==
    [store |-> [store EXCEPT !.USER_PREFERENCES.currency = newCurrency],
     notified |-> store]

\* the store after the write, and the store revalidatePath is called on
UpdateCurrencyEffect(store, newCurrency) ==
    LET written == WriteCurrency(store, newCurrency)
    IN [store |-> written, notified |-> written]

\* mutant: the completed write is also pushed into the mounted UserProvider
updateUserCurrencyResumeSync(i) ==
    /\ Due(i)
    /\ calls[i].kind = "updateUserCurrency"
    /\ LET eff == UpdateCurrencyEffect(db, calls[i].arg)
       IN /\ db' = eff.store
          /\ invalidations' = revalidatePath(i, DemoPath, eff.notified)
          /\ calls' = Finish(i, db.USER_PREFERENCES.currency,
                            eff.store.USER_PREFERENCES.currency, NoResult)
    /\ seq' = seq + 1
    /\ state' = IF mounted THEN [state EXCEPT !.currencyCode = calls[i].arg]
                ELSE state
    /\ UNCHANGED <<AUTH_TOKEN, GEO_COUNTRY_CODE, serverInitialData, mounted,
                   pending, consumed, hist, shown, page>>

\* the rest of the action, once its timer has fired
updateUserCurrencyResume(i) ==
    /\ Due(i)
    /\ calls[i].kind = "updateUserCurrency"
    /\ LET eff == UpdateCurrencyEffect(db, calls[i].arg)
       IN /\ db' = eff.store
          /\ invalidations' = revalidatePath(i, DemoPath, eff.notified)
          /\ calls' = Finish(i, db.USER_PREFERENCES.currency,
                            eff.store.USER_PREFERENCES.currency, NoResult)
    /\ seq' = seq + 1
    /\ UNCHANGED pageVars
    /\ UNCHANGED page

----------------------------------------------------------------------------
(* toggleFeatureFlag *)

\* mutant: FEATURE_FLAGS is replaced by an object with the one flag
ToggleFlagReplace(store, flagName) ==
    [store EXCEPT !.FEATURE_FLAGS =
        [k \in FlagKeys |->
            IF k = ToPropertyKey(flagName)
            THEN JSNot(store.FEATURE_FLAGS[k])
            ELSE "undefined"]]

\* mutant: the flag is switched on instead of flipped
ToggleFlagEnable(store, flagName) ==
    [store EXCEPT !.FEATURE_FLAGS[flagName] = "true"]

\* db.FEATURE_FLAGS[flagName] = !db.FEATURE_FLAGS[flagName]
ToggleFlag(store, flagName) ==
    [store EXCEPT !.FEATURE_FLAGS[ToPropertyKey(flagName)] = JSNot(@)]

\* the action, up to its await
toggleFeatureFlag(formData) ==
    /\ Len(calls) < MaxCalls
    /\ LET flagName == FormDataGet(formData, "flagName")
       IN calls' = Append(calls, NewCall("toggleFeatureFlag", flagName,
                                         db.FEATURE_FLAGS[ToPropertyKey(flagName)],
                                         ToggleLatency))
    /\ seq' = seq + 1
    /\ UNCHANGED <<db, invalidations>>
    /\ UNCHANGED pageVars
    /\ UNCHANGED page

\* the store after the toggle, and the store revalidatePath is called on
ToggleFlagEffect(store, flagName) ==
    LET written == ToggleFlag(store, flagName)
    IN [store |-> written, notified |-> written]

\* mutant: the flag is flipped from the value read when the call was made
toggleFeatureFlagResumeStale(i) ==
    /\ Due(i)
    /\ calls[i].kind = "toggleFeatureFlag"
    /\ LET key == ToPropertyKey(calls[i].arg)
           written == [db EXCEPT !.FEATURE_FLAGS[key] = JSNot(calls[i].from)]
       IN /\ db' = written
          /\ invalidations' = revalidatePath(i, DemoPath, written)
          /\ calls' = Finish(i, db.FEATURE_FLAGS[key],
                            written.FEATURE_FLAGS[key], NoResult)
    /\ seq' = seq + 1
    /\ UNCHANGED pageVars
    /\ UNCHANGED page

\* the rest of the action, once its timer has fired
toggleFeatureFlagResume(i) ==
    /\ Due(i)
    /\ calls[i].kind = "toggleFeatureFlag"
    /\ LET eff == ToggleFlagEffect(db, calls[i].arg)
           key == ToPropertyKey(calls[i].arg)
       IN /\ db' = eff.store
          /\ invalidations' = revalidatePath(i, DemoPath, eff.notified)
          /\ calls' = Finish(i, db.FEATURE_FLAGS[key],
                            eff.store.FEATURE_FLAGS[key], NoResult)
    /\ seq' = seq + 1
    /\ UNCHANGED pageVars
    /\ UNCHANGED page

----------------------------------------------------------------------------
(* The passage of time *)

\* one slot of 100 ms passes: possible only when no timer is due
Tick ==
    /\ InFlight # {}
    /\ \A i \in InFlight : calls[i].remaining > 0
    /\ calls' = [i \in 1..Len(calls) |->
                   IF i \in InFlight
                   THEN [calls[i] EXCEPT !.remaining = @ - 1]
                   ELSE calls[i]]
    /\ UNCHANGED <<db, invalidations, seq>>
    /\ UNCHANGED pageVars
    /\ UNCHANGED page

----------------------------------------------------------------------------
(* GlobalConfigurationPage: the derivation of the configuration *)

\* middleware values the derivation is checked over; the page itself fixes them
AuthTokenValues == {"true", "false", "undefined", "tok-123"}
GeoCodeValues == {"US", "CA", "EU", "UK", "JP", "FR", "ca", "undefined"}

\* mutant: the geo code is compared without regard to case
deriveConfigLoose(authToken, geoCountryCode) ==
    [isLoggedIn |-> IF authToken \in Falsy THEN "false" ELSE "true",
     currencyCode |-> IF geoCountryCode \in {"CA", "ca"} THEN "CAD" ELSE "USD",
     userLocation |-> geoCountryCode]

\* mutant: the currency is looked up in a table that has no default
deriveConfigTable(authToken, geoCountryCode) ==
    [isLoggedIn |-> IF authToken \in Falsy THEN "false" ELSE "true",
     currencyCode |-> IF geoCountryCode = "CA" THEN "CAD"
                      ELSE IF geoCountryCode = "US" THEN "USD"
                      ELSE "undefined",
     userLocation |-> geoCountryCode]

\* currencyCode, isLoggedIn and userLocation as the page computes them
deriveConfig(authToken, geoCountryCode) ==
    [isLoggedIn |-> Boolean(authToken),
     currencyCode |-> IF geoCountryCode = "CA" THEN "CAD" ELSE "USD",
     userLocation |-> geoCountryCode]

\* mutant: the state starts from defaults, the props are ignored
UserProviderInitDefault(props) ==
    [isLoggedIn |-> "false", userLocation |-> "US", currencyCode |-> "USD"]

\* useState({ isLoggedIn, userLocation, currencyCode }) on mount
UserProviderInit(props) ==
    [isLoggedIn |-> props.isLoggedIn, userLocation |-> props.userLocation,
     currencyCode |-> props.currencyCode]

NoState ==
    [isLoggedIn |-> "undefined", userLocation |-> "undefined",
     currencyCode |-> "undefined"]

NoServerData ==
    [AUTH_TOKEN |-> "undefined", GEO_COUNTRY_CODE |-> "undefined",
     isLoggedIn |-> "undefined", currencyCode |-> "undefined",
     userLocation |-> "undefined"]

----------------------------------------------------------------------------
(* UserContext and its accessor *)

NoContextValue ==
    [isLoggedIn |-> "undefined", userLocation |-> "undefined",
     currencyCode |-> "undefined", toggleLocation |-> "undefined",
     toggleLoginStatus |-> "undefined"]

\* const contextValue = { ...state, toggleLocation, toggleLoginStatus }
contextValue(st) ==
    [isLoggedIn |-> st.isLoggedIn, userLocation |-> st.userLocation,
     currencyCode |-> st.currencyCode, toggleLocation |-> "function",
     toggleLoginStatus |-> "function"]

\* useContext(UserContext): the value of the nearest UserProvider above the
\* caller, the default null of createContext(null) when there is none
useContext(provided, st) ==
    IF provided THEN [type |-> "object", value |-> contextValue(st)]
    ELSE [type |-> "null", value |-> NoContextValue]

\* !context for a reference: an object is truthy, whatever its fields
NotRef(ref) == ref.type \in {"null", "undefined"}

ProviderMissing == "useUserContext must be used within a UserProvider"

\* mutant: the guard tests the login flag of the context, not the context
useUserContextLoggedIn(provided, st) ==
    LET context == useContext(provided, st)
    IN IF NotRef(context) \/ ~ToBoolean(context.value.isLoggedIn)
       THEN [read |-> TRUE, threw |-> ProviderMissing, value |-> NoContextValue]
       ELSE [read |-> TRUE, threw |-> "none", value |-> context.value]

\* useUserContext(): what the caller gets, a thrown Error or the context
useUserContext(provided, st) ==
    LET context == useContext(provided, st)
    IN IF NotRef(context)
       THEN [read |-> TRUE, threw |-> ProviderMissing, value |-> NoContextValue]
       ELSE [read |-> TRUE, threw |-> "none", value |-> context.value]

NoConsumed == [read |-> FALSE, threw |-> "none", value |-> NoContextValue]

NoHist == [toggleLocation |-> 0, toggleLoginStatus |-> 0, renders |-> 0]

----------------------------------------------------------------------------
(* DataFlowVisualization *)

\* the keys of the object literal serverInitialData, in the order written
ServerInitialDataKeys ==
    <<"AUTH_TOKEN", "GEO_COUNTRY_CODE", "isLoggedIn", "currencyCode",
      "userLocation">>

\* the keys of the object literal built from currentClientState
ClientStateKeys == <<"isLoggedIn", "userLocation", "currencyCode">>

\* JSON.stringify(obj) of an object literal with the given keys: the
\* key/value pairs in the order of the keys, a key whose value is undefined
\* left out. Two objects give the same string exactly when these agree.
JSONStringify(obj, keys) ==
    LET kept == SelectSeq(keys, LAMBDA k : obj[k] # "undefined")
    IN [n \in 1..Len(kept) |-> <<kept[n], obj[kept[n]]>>]

StateModified == "State has been modified client-side!"
StateMatches == "State matches server initial values"

\* the line under "Current client state"
DataFlowVisualization(initialData, currentClientState) ==
    IF JSONStringify(initialData, ServerInitialDataKeys)
         # JSONStringify([isLoggedIn |-> currentClientState.isLoggedIn,
                          userLocation |-> currentClientState.userLocation,
                          currencyCode |-> currentClientState.currencyCode],
                         ClientStateKeys)
    THEN StateModified
    ELSE StateMatches

\* a load of the page: the server derives, the client mounts UserProvider and
\* renders the consumers below it
GlobalConfigurationPage ==
    /\ LET derived == deriveConfig(AUTH_TOKEN, GEO_COUNTRY_CODE)
           mountState == UserProviderInit(derived)
       IN /\ serverInitialData' =
                [AUTH_TOKEN |-> AUTH_TOKEN,
                 GEO_COUNTRY_CODE |-> GEO_COUNTRY_CODE,
                 isLoggedIn |-> derived.isLoggedIn,
                 currencyCode |-> derived.currencyCode,
                 userLocation |-> derived.userLocation]
          /\ state' = mountState
          /\ consumed' = useUserContext(TRUE, mountState)
          /\ shown' = DataFlowVisualization(
                          [AUTH_TOKEN |-> AUTH_TOKEN,
                           GEO_COUNTRY_CODE |-> GEO_COUNTRY_CODE,
                           isLoggedIn |-> derived.isLoggedIn,
                           currencyCode |-> derived.currencyCode,
                           userLocation |-> derived.userLocation],
                          useUserContext(TRUE, mountState).value)
    /\ mounted' = TRUE
    /\ pending' = <<>>
    /\ hist' = NoHist
    /\ UNCHANGED <<AUTH_TOKEN, GEO_COUNTRY_CODE>>
    /\ UNCHANGED storeVars

\* a consumer rendered while no UserProvider is rendered above it
ConsumerOutsideProvider ==
    /\ ~mounted
    /\ consumed' = useUserContext(FALSE, state)
    /\ UNCHANGED <<AUTH_TOKEN, GEO_COUNTRY_CODE, serverInitialData, mounted, state,
                   pending, hist, shown>>
    /\ UNCHANGED storeVars

----------------------------------------------------------------------------
(* UserProvider: the client state container *)

locations ==
    << [location |-> "US", currency |-> "USD"],
       [location |-> "CA", currency |-> "CAD"],
       [location |-> "EU", currency |-> "EUR"],
       [location |-> "UK", currency |-> "GBP"],
       [location |-> "JP", currency |-> "JPY"] >>

\* mutant: a location that is not in the list is looked up as the first entry
FindIndexDefaultFirst(userLocation) ==
    IF \E k \in 1..Len(locations) : locations[k].location = userLocation
    THEN (CHOOSE k \in 1..Len(locations) :
            /\ locations[k].location = userLocation
            /\ \A j \in 1..(k - 1) : locations[j].location # userLocation) - 1
    ELSE 0

\* locations.findIndex(l => l.location === userLocation), counted from 0
FindIndex(userLocation) ==
    IF \E k \in 1..Len(locations) : locations[k].location = userLocation
    THEN (CHOOSE k \in 1..Len(locations) :
            /\ locations[k].location = userLocation
            /\ \A j \in 1..(k - 1) : locations[j].location # userLocation) - 1
    ELSE -1

\* mutant: only userLocation is set, currencyCode keeps its value
toggleLocationUpdaterLocationOnly(prevState) ==
    LET currentIndex == FindIndex(prevState.userLocation)
        nextIndex == (currentIndex + 1) % Len(locations)
        next == locations[nextIndex + 1]
    IN [prevState EXCEPT !.userLocation = next.location]

\* mutant: the new state is built without ...prevState
toggleLocationUpdaterNoSpread(prevState) ==
    LET currentIndex == FindIndex(prevState.userLocation)
        nextIndex == (currentIndex + 1) % Len(locations)
        next == locations[nextIndex + 1]
    IN [isLoggedIn |-> "undefined",
        userLocation |-> next.location,
        currencyCode |-> next.currency]

\* mutant: a location that is not in the list is left as it is
toggleLocationUpdaterStrict(prevState) ==
    LET currentIndex == FindIndex(prevState.userLocation)
        nextIndex == (currentIndex + 1) % Len(locations)
        next == locations[nextIndex + 1]
    IN IF currentIndex = -1 THEN prevState
       ELSE [prevState EXCEPT !.userLocation = next.location,
                              !.currencyCode = next.currency]

\* mutant: the current entry is looked up by prevState.currencyCode
toggleLocationUpdaterByCurrency(prevState) ==
    LET currentIndex ==
            IF \E k \in 1..Len(locations) :
                   locations[k].currency = prevState.currencyCode
            THEN (CHOOSE k \in 1..Len(locations) :
                    locations[k].currency = prevState.currencyCode) - 1
            ELSE -1
        nextIndex == (currentIndex + 1) % Len(locations)
        next == locations[nextIndex + 1]
    IN [prevState EXCEPT !.userLocation = next.location,
                         !.currencyCode = next.currency]

\* mutant: the index stops at the last entry instead of wrapping
toggleLocationUpdaterClamp(prevState) ==
    LET currentIndex == FindIndex(prevState.userLocation)
        nextIndex == IF currentIndex + 1 < Len(locations)
                     THEN currentIndex + 1 ELSE Len(locations) - 1
        next == locations[nextIndex + 1]
    IN [prevState EXCEPT !.userLocation = next.location,
                         !.currencyCode = next.currency]

\* the updater toggleLocation hands to setState
toggleLocationUpdater(prevState) ==
    LET currentIndex == FindIndex(prevState.userLocation)
        nextIndex == (currentIndex + 1) % Len(locations)
        next == locations[nextIndex + 1]
    IN [prevState EXCEPT !.userLocation = next.location,
                         !.currencyCode = next.currency]

\* mutant: the new state is built without ...prevState
toggleLoginStatusUpdaterNoSpread(prevState) ==
    [isLoggedIn |-> JSNot(prevState.isLoggedIn),
     userLocation |-> "undefined",
     currencyCode |-> "undefined"]

\* mutant: the button only ever logs out
toggleLoginStatusUpdaterLogout(prevState) ==
    [prevState EXCEPT !.isLoggedIn = "false"]

\* the updater toggleLoginStatus hands to setState
toggleLoginStatusUpdater(prevState) ==
    [prevState EXCEPT !.isLoggedIn = JSNot(prevState.isLoggedIn)]

ApplyUpdater(name, prevState) ==
    IF name = "toggleLocation" THEN toggleLocationUpdater(prevState)
    ELSE toggleLoginStatusUpdater(prevState)

\* mutant: every queued update is computed from the state the handler closed
\* over, so that the last one replaces the others
ApplyAllStale(queue, prevState) ==
    IF queue = <<>> THEN prevState
    ELSE ApplyUpdater(queue[Len(queue)], prevState)

\* the queued updaters applied in order, each to the result of the one before
RECURSIVE ApplyAll(_, _)
ApplyAll(queue, prevState) ==
    IF queue = <<>> THEN prevState
    ELSE ApplyAll(Tail(queue), ApplyUpdater(Head(queue), prevState))

Clicks == hist.toggleLocation + hist.toggleLoginStatus

\* a click on "Cycle Location/Currency"
toggleLocation ==
    /\ mounted
    /\ Len(pending) < MaxPending
    /\ Clicks < MaxClicks
    /\ pending' = Append(pending, "toggleLocation")
    /\ hist' = [hist EXCEPT !.toggleLocation = @ + 1]
    /\ UNCHANGED <<AUTH_TOKEN, GEO_COUNTRY_CODE, serverInitialData, mounted, state,
                   consumed, shown>>
    /\ UNCHANGED storeVars

\* a click on "Log Out" / "Log In"
toggleLoginStatus ==
    /\ mounted
    /\ Len(pending) < MaxPending
    /\ Clicks < MaxClicks
    /\ pending' = Append(pending, "toggleLoginStatus")
    /\ hist' = [hist EXCEPT !.toggleLoginStatus = @ + 1]
    /\ UNCHANGED <<AUTH_TOKEN, GEO_COUNTRY_CODE, serverInitialData, mounted, state,
                   consumed, shown>>
    /\ UNCHANGED storeVars

\* UserProvider renders again: useState returns the state with the queue
\* applied, and the consumers below read the new context value
UserProviderRender ==
    /\ mounted
    /\ pending # <<>>
    /\ LET rendered == ApplyAll(pending, state)
       IN /\ state' = rendered
          /\ consumed' = useUserContext(TRUE, rendered)
          /\ shown' = DataFlowVisualization(serverInitialData,
                                            useUserContext(TRUE, rendered).value)
    /\ pending' = <<>>
    /\ hist' = [hist EXCEPT !.renders = @ + 1]
    /\ UNCHANGED <<AUTH_TOKEN, GEO_COUNTRY_CODE, serverInitialData, mounted>>
    /\ UNCHANGED storeVars

----------------------------------------------------------------------------
(* The server process of the server-actions demo *)

InitStore ==
    /\ db = dbInit
    /\ calls = <<>>
    /\ invalidations = <<>>
    /\ seq = 0
    /\ page = NoPage

\* no page has been loaded; the page's middleware values are its constants
InitPage ==
    /\ AUTH_TOKEN = "true"
    /\ GEO_COUNTRY_CODE = "CA"
    /\ serverInitialData = NoServerData
    /\ mounted = FALSE
    /\ state = NoState
    /\ pending = <<>>
    /\ consumed = NoConsumed
    /\ hist = NoHist
    /\ shown = "none"

Init == InitStore /\ InitPage

Next ==
    \/ getServerPreferences
    \/ \E formData \in CurrencyForms : updateUserCurrency(formData)
    \/ \E formData \in FlagForms : toggleFeatureFlag(formData)
    \/ \E i \in 1..Len(calls) : getServerPreferencesResume(i)
    \/ \E i \in 1..Len(calls) : updateUserCurrencyResume(i)
    \/ \E i \in 1..Len(calls) : toggleFeatureFlagResume(i)
    \/ Tick

Spec == Init /\ [][Next]_vars

\* The store with the event loop kept running: time passes while no timer
\* is due, and a timer that is due fires, and the code after its await runs.
MaxFairCalls == 2

FewFairCalls == Len(calls') <= MaxFairCalls

NextFair ==
    \/ getServerPreferences /\ FewFairCalls
    \/ \E formData \in CurrencyForms : updateUserCurrency(formData) /\ FewFairCalls
    \/ \E formData \in FlagForms : toggleFeatureFlag(formData) /\ FewFairCalls
    \/ \E i \in 1..Len(calls) : getServerPreferencesResume(i)
    \/ \E i \in 1..Len(calls) : updateUserCurrencyResume(i)
    \/ \E i \in 1..Len(calls) : toggleFeatureFlagResume(i)
    \/ Tick

Fairness ==
    /\ WF_vars(Tick)
    /\ \A i \in 1..MaxFairCalls :
          /\ WF_vars(getServerPreferencesResume(i))
          /\ WF_vars(updateUserCurrencyResume(i))
          /\ WF_vars(toggleFeatureFlagResume(i))

SpecFair == Init /\ [][NextFair]_vars /\ Fairness

----------------------------------------------------------------------------
(* The configuration page and its client container *)

NextPage ==
    \/ GlobalConfigurationPage
    \/ ConsumerOutsideProvider
    \/ toggleLocation
    \/ toggleLoginStatus
    \/ UserProviderRender

SpecPage == Init /\ [][NextPage]_vars

----------------------------------------------------------------------------
(* The derivation over every middleware value, not only the page's constants *)

InitDerive ==
    /\ InitStore
    /\ AUTH_TOKEN \in AuthTokenValues
    /\ GEO_COUNTRY_CODE \in GeoCodeValues
    /\ serverInitialData = NoServerData
    /\ mounted = FALSE
    /\ state = NoState
    /\ pending = <<>>
    /\ consumed = NoConsumed
    /\ hist = NoHist
    /\ shown = "none"

SpecDerive == InitDerive /\ [][NextPage]_vars

\* The page and the store side by side: one browser tab on the page while
\* server actions run against the store of the same server process, a few
\* calls and a few clicks at a time.
MaxBothCalls == 2
MaxBothClicks == 1

FewCalls == Len(calls') <= MaxBothCalls
FewClicks == hist'.toggleLocation + hist'.toggleLoginStatus <= MaxBothClicks

NextBoth ==
    \/ getServerPreferences /\ FewCalls
    \/ \E formData \in CurrencyForms : updateUserCurrency(formData) /\ FewCalls
    \/ \E formData \in FlagForms : toggleFeatureFlag(formData) /\ FewCalls
    \/ \E i \in 1..Len(calls) : getServerPreferencesResume(i)
    \/ \E i \in 1..Len(calls) : updateUserCurrencyResume(i)
    \/ \E i \in 1..Len(calls) : toggleFeatureFlagResume(i)
    \/ Tick
    \/ GlobalConfigurationPage
    \/ ConsumerOutsideProvider
    \/ toggleLocation /\ FewClicks
    \/ toggleLoginStatus /\ FewClicks
    \/ UserProviderRender

SpecBoth == Init /\ [][NextBoth]_vars

----------------------------------------------------------------------------
(* The history of the server calls *)

Calls == 1..Len(calls)
IsDone(i) == calls[i].pc = "done"
Reads == {i \in Calls : calls[i].kind = "getServerPreferences"}
Updates == {i \in Calls : calls[i].kind = "updateUserCurrency"}
Toggles == {i \in Calls : calls[i].kind = "toggleFeatureFlag"}
Mutations == Updates \cup Toggles

\* m and n write the same field of the store
SameField(m, n) ==
    /\ calls[m].kind = calls[n].kind
    /\ calls[m].kind = "toggleFeatureFlag" =>
          ToPropertyKey(calls[m].arg) = ToPropertyKey(calls[n].arg)

\* the value of the field mutation m writes, as getServerPreferences r returned it
Returned(r, m) ==
    IF calls[m].kind = "updateUserCurrency" THEN calls[r].result.currency
    ELSE calls[r].result.currencyToggleEnabled

\* getServerPreferences returns the field mutation m writes
Visible(m) ==
    \/ calls[m].kind = "updateUserCurrency"
    \/ ToPropertyKey(calls[m].arg) = "currencyToggleEnabled"

\* a mutation of m's field, other than m, completed after step a and before step b
OtherWriteBetween(m, a, b) ==
    \E n \in Mutations \ {m} :
        /\ SameField(m, n)
        /\ IsDone(n)
        /\ a < calls[n].end
        /\ calls[n].end < b

\* r is the first getServerPreferences call made after mutation m completed
NextReadAfter(r, m) ==
    /\ IsDone(m)
    /\ calls[m].end < calls[r].start
    /\ \A q \in Reads : calls[m].end < calls[q].start => r <= q

----------------------------------------------------------------------------
(* C1 *)

\* C1 as stated: once a mutation has completed, the next getServerPreferences
\* call made after the completion returns the value that mutation wrote, in
\* every interleaving.
C1_NextReadReturnsThatWrite ==
    \A m \in Mutations : \A r \in Reads :
        (Visible(m) /\ NextReadAfter(r, m) /\ IsDone(r))
            => Returned(r, m) = calls[m].wrote

\* C1 amended: a getServerPreferences call made after a mutation completed
\* returns the value that mutation wrote unless another mutation of the same
\* field completed after it and before the read did; the read then returns
\* the latest completed write, never a value older than the mutation.
C1_NoStaleRead ==
    \A m \in Mutations : \A r \in Reads :
        ( /\ Visible(m) /\ IsDone(m) /\ IsDone(r)
          /\ calls[m].end < calls[r].start
          /\ ~OtherWriteBetween(m, calls[m].end, calls[r].end) )
            => /\ Returned(r, m) = calls[m].wrote
               /\ calls[m].kind = "updateUserCurrency" =>
                     calls[r].result.currency = calls[m].arg
               /\ calls[m].kind = "toggleFeatureFlag" =>
                     calls[r].result.currencyToggleEnabled # calls[m].before

\* a read made after a completed setCurrency("EUR") and after a completed
\* toggle of currencyToggleEnabled has returned both writes
C1_Witness ==
    \E m \in Updates : \E t \in Toggles : \E r \in Reads :
        /\ IsDone(m) /\ IsDone(t) /\ IsDone(r)
        /\ calls[m].arg = "EUR"
        /\ calls[t].arg = "currencyToggleEnabled"
        /\ calls[m].end < calls[r].start
        /\ calls[t].end < calls[r].start
        /\ calls[r].result.currency = "EUR"
        /\ calls[r].result.currencyToggleEnabled = "false"

----------------------------------------------------------------------------
(* C2 *)

InvalidationsBy(i) == {k \in 1..Len(invalidations) : invalidations[k].by = i}

\* the store revalidatePath was called on holds the write of call i
HoldsWrite(store, i) ==
    IF calls[i].kind = "updateUserCurrency"
    THEN store.USER_PREFERENCES.currency = calls[i].arg
    ELSE /\ store.FEATURE_FLAGS[ToPropertyKey(calls[i].arg)] = calls[i].wrote
         /\ calls[i].wrote # calls[i].before

\* C2: every completed updateUserCurrency and toggleFeatureFlag has called
\* revalidatePath exactly once, on the demo path, with its write already in
\* the store; a mutation still in its delay and a read have called it never.
C2_WriteThenInvalidate ==
    /\ \A i \in Mutations :
          IF IsDone(i)
          THEN /\ Cardinality(InvalidationsBy(i)) = 1
               /\ \A k \in InvalidationsBy(i) :
                     /\ invalidations[k].path = "/server-actions-demo"
                     /\ HoldsWrite(invalidations[k].seen, i)
          ELSE InvalidationsBy(i) = {}
    /\ \A i \in Reads : InvalidationsBy(i) = {}
    /\ \A k \in 1..Len(invalidations) : invalidations[k].by \in Mutations

\* both actions have completed and notified, each with a write that changed
\* the store
C2_Witness ==
    \E u \in Updates : \E t \in Toggles :
        /\ IsDone(u) /\ IsDone(t)
        /\ calls[u].arg # calls[u].before
        /\ Len(invalidations) = 2
        /\ \E k \in InvalidationsBy(u) :
              invalidations[k].seen.USER_PREFERENCES.currency = calls[u].arg
        /\ \E k \in InvalidationsBy(t) :
              invalidations[k].seen.FEATURE_FLAGS[calls[t].arg] = calls[t].wrote

----------------------------------------------------------------------------
(* C3 *)

KnownCurrencies == {"USD", "EUR", "GBP", "JPY", "CAD"}

\* C3: a step that completes updateUserCurrency leaves exactly the submitted
\* value in the store's currency, whatever the value and whatever the
\* currency before, and the call is fulfilled, never rejected.
C3_SetCurrencyUnconditional ==
    [][\A i \in Updates :
          (calls[i].pc = "delay" /\ calls'[i].pc = "done")
              => /\ db'.USER_PREFERENCES.currency = calls[i].arg
                 /\ calls'[i].wrote = calls[i].arg
                 /\ calls'[i].outcome = "fulfilled"]_vars

\* a value outside the known currencies has been stored over a known one
C3_Witness ==
    \E i \in Updates :
        /\ IsDone(i)
        /\ calls[i].arg \notin KnownCurrencies
        /\ calls[i].before \in KnownCurrencies
        /\ calls[i].outcome = "fulfilled"
        /\ db.USER_PREFERENCES.currency = calls[i].arg

----------------------------------------------------------------------------
(* C4 *)

\* mutation m was made before step b and had not completed by step b
PendingAt(m, b) ==
    /\ calls[m].start < b
    /\ ~IsDone(m) \/ b < calls[m].end

\* C4: a getServerPreferences call that completes while a mutation is in its
\* delay returns the value the store held when the mutation was made (no
\* other mutation of that field having completed since): making the call
\* writes nothing, the write shows only at completion.
C4_PendingState ==
    \A m \in Mutations : \A r \in Reads :
        ( /\ Visible(m) /\ IsDone(r)
          /\ PendingAt(m, calls[r].end)
          /\ ~OtherWriteBetween(m, calls[m].start, calls[r].end) )
            => Returned(r, m) = calls[m].from

\* a read made after setCurrency("EUR") was made has returned USD while the
\* action is still in its delay, and the store still holds USD
C4_Witness ==
    \E m \in Updates : \E r \in Reads :
        /\ calls[m].arg = "EUR"
        /\ calls[m].pc = "delay"
        /\ calls[m].start < calls[r].start
        /\ IsDone(r)
        /\ calls[r].result.currency = "USD"
        /\ db.USER_PREFERENCES.currency = "USD"

----------------------------------------------------------------------------
(* C5 *)

\* t and u are completed toggles of one flag, u the next to complete after t
ConsecutiveToggles(t, u) ==
    /\ t # u /\ SameField(t, u) /\ IsDone(t) /\ IsDone(u)
    /\ calls[t].end < calls[u].end
    /\ ~OtherWriteBetween(t, calls[t].end, calls[u].end)

\* C5: a completed toggleFeatureFlag has written true over an absent flag,
\* false over true and true over false, and the store holds what the last
\* completed toggle wrote; two toggles of one flag completing one after the
\* other restore the value before the first, an absent flag ending false.
C5_ToggleFlips ==
    /\ \A t \in Toggles : IsDone(t) =>
          /\ calls[t].before = "undefined" => calls[t].wrote = "true"
          /\ calls[t].before = "true" => calls[t].wrote = "false"
          /\ calls[t].before = "false" => calls[t].wrote = "true"
          /\ ~OtherWriteBetween(t, calls[t].end, seq + 1) =>
                db.FEATURE_FLAGS[ToPropertyKey(calls[t].arg)] = calls[t].wrote
    /\ \A t \in Toggles : \A u \in Toggles :
          ConsecutiveToggles(t, u) =>
              /\ calls[u].before = calls[t].wrote
              /\ calls[u].wrote =
                    (IF calls[t].before = "undefined" THEN "false"
                     ELSE calls[t].before)

\* the absent flag x has been toggled twice and is false
C5_Witness ==
    \E t \in Toggles : \E u \in Toggles :
        /\ ConsecutiveToggles(t, u)
        /\ calls[t].arg = "x"
        /\ calls[t].before = "undefined"
        /\ calls[t].wrote = "true"
        /\ db.FEATURE_FLAGS["x"] = "false"

----------------------------------------------------------------------------
(* C6 *)

\* u is the updateUserCurrency call that completed last
LastCompletedUpdate(u) ==
    /\ u \in Updates /\ IsDone(u)
    /\ \A v \in Updates : IsDone(v) => calls[v].end <= calls[u].end

\* C6: the store's currency is the value of the updateUserCurrency call that
\* completed last, whichever calls overlapped it and in whatever order they
\* were made, and the initial USD when none has completed: never the value
\* of an overwritten call, a blend or a third value.
C6_LastCompletingWriteWins ==
    /\ \A u \in Updates :
          LastCompletedUpdate(u) => db.USER_PREFERENCES.currency = calls[u].arg
    /\ (\A u \in Updates : ~IsDone(u)) => db.USER_PREFERENCES.currency = "USD"
    /\ db.USER_PREFERENCES.currency
          \in {"USD"} \cup {calls[u].arg : u \in Updates}

\* two calls with different values overlapped in time, both have completed,
\* and the store holds the value of the one that completed last
C6_Witness ==
    \E u \in Updates : \E v \in Updates :
        /\ IsDone(u) /\ IsDone(v)
        /\ calls[u].arg # calls[v].arg
        /\ calls[u].start < calls[v].start
        /\ calls[v].start < calls[u].end
        /\ calls[u].end < calls[v].end
        /\ calls[v].from = "USD"
        /\ db.USER_PREFERENCES.currency = calls[v].arg

----------------------------------------------------------------------------
(* C7 *)

\* C7: the step that completes getServerPreferences returns the currency,
\* the theme and the currencyToggleEnabled flag the store holds in that one
\* step, and leaves the store as it is; so does the step that makes the call.
C7_ConsistentSnapshot ==
    [][\A r \in 1..Len(calls') :
          calls'[r].kind = "getServerPreferences" =>
              /\ (r \in Calls /\ calls[r].pc = "delay" /\ calls'[r].pc = "done")
                    => /\ calls'[r].result.currency = db.USER_PREFERENCES.currency
                       /\ calls'[r].result.theme = db.USER_PREFERENCES.theme
                       /\ calls'[r].result.currencyToggleEnabled =
                             db.FEATURE_FLAGS["currencyToggleEnabled"]
                       /\ db' = db
              /\ r \notin Calls => db' = db]_vars

\* a read made while both kinds of mutation were in their delay has completed
\* after both and returned both writes
C7_Witness ==
    \E r \in Reads : \E u \in Updates : \E t \in Toggles :
        /\ IsDone(r) /\ IsDone(u) /\ IsDone(t)
        /\ calls[u].start < calls[r].start /\ calls[r].start < calls[u].end
        /\ calls[t].start < calls[r].start /\ calls[r].start < calls[t].end
        /\ calls[u].end < calls[r].end /\ calls[t].end < calls[r].end
        /\ calls[r].result.currency = "EUR"
        /\ calls[r].result.currencyToggleEnabled = "false"
        /\ calls[r].result.theme = "light"

----------------------------------------------------------------------------
(* C8 *)

CycleLocations == {"US", "CA", "EU", "UK", "JP"}
CycleCurrencies == {"USD", "CAD", "EUR", "GBP", "JPY"}

\* C8: for an auth token true or false and every geo code, the derived
\* configuration is the token as isLoggedIn, CAD for the geo code CA and USD
\* for every other, and the geo code itself as userLocation.
C8_DeriveConfigReference ==
    (mounted /\ AUTH_TOKEN \in {"true", "false"}) =>
        /\ serverInitialData.isLoggedIn = AUTH_TOKEN
        /\ GEO_COUNTRY_CODE = "CA" => serverInitialData.currencyCode = "CAD"
        /\ GEO_COUNTRY_CODE # "CA" => serverInitialData.currencyCode = "USD"
        /\ serverInitialData.userLocation = GEO_COUNTRY_CODE
        /\ (AUTH_TOKEN = "false" /\ GEO_COUNTRY_CODE = "US") =>
              /\ serverInitialData.isLoggedIn = "false"
              /\ serverInitialData.currencyCode = "USD"
              /\ serverInitialData.userLocation = "US"

\* the page has derived {false, USD, US} from (false, US)
C8_Witness ==
    /\ mounted
    /\ AUTH_TOKEN = "false" /\ GEO_COUNTRY_CODE = "US"
    /\ serverInitialData.isLoggedIn = "false"
    /\ serverInitialData.currencyCode = "USD"
    /\ serverInitialData.userLocation = "US"

----------------------------------------------------------------------------
(* C9 *)

\* C9 as stated: for every geo code the derived currencyCode is one of the
\* five currencies and the derived userLocation one of the five locations,
\* an unrecognized geo code giving USD / US.
C9_DerivedInFiniteMapping ==
    mounted =>
        /\ serverInitialData.currencyCode \in CycleCurrencies
        /\ serverInitialData.userLocation \in CycleLocations
        /\ GEO_COUNTRY_CODE \notin CycleLocations =>
              /\ serverInitialData.currencyCode = "USD"
              /\ serverInitialData.userLocation = "US"

\* C9 amended: for every geo code the derived currencyCode is USD or CAD, so
\* one of the five currencies, and an unrecognized geo code gives USD; the
\* derived userLocation is the geo code itself, one of the five locations
\* only when the geo code is, and not US for an unrecognized geo code.
C9_DerivedCurrencyFallsBack ==
    mounted =>
        /\ serverInitialData.currencyCode \in {"USD", "CAD"}
        /\ serverInitialData.currencyCode \in CycleCurrencies
        /\ serverInitialData.userLocation = GEO_COUNTRY_CODE
        /\ GEO_COUNTRY_CODE \notin CycleLocations =>
              /\ serverInitialData.currencyCode = "USD"
              /\ serverInitialData.userLocation \notin CycleLocations

\* the page has derived USD and the location FR from the geo code FR
C9_Witness ==
    /\ mounted
    /\ GEO_COUNTRY_CODE = "FR"
    /\ serverInitialData.currencyCode = "USD"
    /\ serverInitialData.userLocation = "FR"

----------------------------------------------------------------------------
(* C10 *)

\* C10: every load of the page derives from AUTH_TOKEN true and
\* GEO_COUNTRY_CODE CA, and leaves the client container mounted with exactly
\* {isLoggedIn true, currencyCode CAD, userLocation CA} and no update queued.
C10_ServerToClientHandoff ==
    [][GlobalConfigurationPage =>
          /\ AUTH_TOKEN = "true" /\ GEO_COUNTRY_CODE = "CA"
          /\ serverInitialData'.AUTH_TOKEN = "true"
          /\ serverInitialData'.GEO_COUNTRY_CODE = "CA"
          /\ mounted'
          /\ pending' = <<>>
          /\ state' = [isLoggedIn |-> "true", currencyCode |-> "CAD",
                       userLocation |-> "CA"]]_vars

\* the container is mounted on the derived configuration, nothing queued
C10_Witness ==
    /\ mounted
    /\ pending = <<>>
    /\ serverInitialData.AUTH_TOKEN = "true"
    /\ serverInitialData.GEO_COUNTRY_CODE = "CA"
    /\ state = [isLoggedIn |-> "true", currencyCode |-> "CAD",
                userLocation |-> "CA"]

----------------------------------------------------------------------------
(* the cycle of CurrencyToggle, written out *)

Successor(location) ==
    CASE location = "US" -> "CA"
      [] location = "CA" -> "EU"
      [] location = "EU" -> "UK"
      [] location = "UK" -> "JP"
      [] location = "JP" -> "US"
      [] OTHER -> "none"

PairedCurrency(location) ==
    CASE location = "US" -> "USD"
      [] location = "CA" -> "CAD"
      [] location = "EU" -> "EUR"
      [] location = "UK" -> "GBP"
      [] location = "JP" -> "JPY"
      [] OTHER -> "none"

\* the state UserProvider was mounted with at the latest load of the page
Origin ==
    [isLoggedIn |-> serverInitialData.isLoggedIn,
     userLocation |-> serverInitialData.userLocation,
     currencyCode |-> serverInitialData.currencyCode]

\* a render that applies exactly the one queued update of the given button
RenderOf(name) == UserProviderRender /\ pending = <<name>>

----------------------------------------------------------------------------
(* C11 *)

\* C11: a render that applies one toggleLocation to a state whose
\* userLocation is one of US, CA, EU, UK, JP leaves userLocation at the next
\* entry of the order US, CA, EU, UK, JP, US and currencyCode at that entry's
\* currency, whatever currencyCode the state carried before.
C11_CycleAdvances ==
    [][(RenderOf("toggleLocation") /\ state.userLocation \in CycleLocations) =>
          /\ state'.userLocation = Successor(state.userLocation)
          /\ state'.currencyCode = PairedCurrency(Successor(state.userLocation))]_vars

\* one cycle from the mounted state (JP, USD) has wrapped around to (US, USD)
C11_Witness ==
    /\ mounted
    /\ pending = <<>>
    /\ hist = [toggleLocation |-> 1, toggleLoginStatus |-> 0, renders |-> 1]
    /\ Origin.userLocation = "JP" /\ Origin.currencyCode = "USD"
    /\ state.userLocation = "US" /\ state.currencyCode = "USD"

----------------------------------------------------------------------------
(* C12 *)

RECURSIVE SuccessorN(_, _)
SuccessorN(location, n) ==
    IF n = 0 THEN location ELSE SuccessorN(Successor(location), n - 1)

\* the (location, currency) pair is one of the five entries of the cycle
Paired(st) ==
    /\ st.userLocation \in CycleLocations
    /\ st.currencyCode = PairedCurrency(st.userLocation)

\* the state n cycles after the mount, read off the written-out cycle
AfterCycles(n) ==
    IF n = 0 THEN [userLocation |-> Origin.userLocation,
                   currencyCode |-> Origin.currencyCode]
    ELSE [userLocation |-> SuccessorN(Origin.userLocation, n),
          currencyCode |-> PairedCurrency(SuccessorN(Origin.userLocation, n))]

\* C12 as stated: five cycles from any mounted state whose userLocation is
\* one of the five give back the (currencyCode, userLocation) pair the state
\* started with, whatever currencyCode it carried.
C12_CycleClosureAnyStart ==
    (mounted /\ pending = <<>> /\ hist.toggleLocation = 5
        /\ Origin.userLocation \in CycleLocations) =>
       /\ state.userLocation = Origin.userLocation
       /\ state.currencyCode = Origin.currencyCode

\* C12: five cycles from a state whose userLocation is one of the five give
\* back its userLocation together with the currency paired with that location;
\* that is the starting pair when the start was paired, and a different
\* currencyCode when it was not.
C12_CycleClosurePaired ==
    (mounted /\ pending = <<>> /\ hist.toggleLocation >= 5
        /\ Origin.userLocation \in CycleLocations) =>
       LET start == AfterCycles(hist.toggleLocation - 5)
       IN /\ state.userLocation = start.userLocation
          /\ state.currencyCode = PairedCurrency(start.userLocation)
          /\ Paired(start) => state.currencyCode = start.currencyCode
          /\ ~Paired(start) => state.currencyCode # start.currencyCode

\* five cycles from the mounted (CA, CAD) are back at (CA, CAD)
C12_Witness ==
    /\ mounted
    /\ pending = <<>>
    /\ hist.toggleLocation = 5
    /\ Origin.userLocation = "CA" /\ Origin.currencyCode = "CAD"
    /\ state.userLocation = "CA" /\ state.currencyCode = "CAD"

----------------------------------------------------------------------------
(* C13 *)

\* C13 as stated: one toggleLocation applied to a state whose userLocation is
\* none of the five leaves the location and currency that one toggleLocation
\* leaves when applied to the same state with userLocation US.
C13_UnmatchedCyclesLikeUS ==
    [][(RenderOf("toggleLocation") /\ state.userLocation \notin CycleLocations) =>
          LET asUS == toggleLocationUpdater([state EXCEPT !.userLocation = "US"])
          IN /\ state'.userLocation = asUS.userLocation
             /\ state'.currencyCode = asUS.currencyCode]_vars

\* C13: one toggleLocation applied to a state whose userLocation is none of
\* the five leaves (US, USD), the first entry of the cycle: the result of
\* cycling from the last entry JP, and not the (CA, CAD) that cycling from US
\* gives.
C13_UnmatchedCyclesToFirst ==
    [][(RenderOf("toggleLocation") /\ state.userLocation \notin CycleLocations) =>
          LET asJP == toggleLocationUpdater([state EXCEPT !.userLocation = "JP"])
              asUS == toggleLocationUpdater([state EXCEPT !.userLocation = "US"])
          IN /\ state'.userLocation = "US" /\ state'.currencyCode = "USD"
             /\ state'.userLocation = asJP.userLocation
             /\ state'.currencyCode = asJP.currencyCode
             /\ asUS.userLocation = "CA" /\ asUS.currencyCode = "CAD"
             /\ state'.isLoggedIn = state.isLoggedIn]_vars

\* one cycle from the mounted state (FR, USD) has been rendered
C13_Witness ==
    /\ mounted
    /\ pending = <<>>
    /\ hist = [toggleLocation |-> 1, toggleLoginStatus |-> 0, renders |-> 1]
    /\ Origin.userLocation = "FR" /\ Origin.currencyCode = "USD"
    /\ state.userLocation = Successor("JP")
    /\ state.currencyCode = PairedCurrency(Successor("JP"))

----------------------------------------------------------------------------
(* C14 *)

\* C14: a render that applies one toggleLoginStatus leaves isLoggedIn at the
\* negation of its value before, and userLocation and currencyCode as they
\* were.
C14_ToggleLoginFrame ==
    [][RenderOf("toggleLoginStatus") =>
          /\ state.isLoggedIn \in {"true", "false"}
          /\ state'.isLoggedIn = (IF state.isLoggedIn = "true" THEN "false"
                                   ELSE "true")
          /\ state'.userLocation = state.userLocation
          /\ state'.currencyCode = state.currencyCode]_vars

\* one login toggle from the mounted state (true, CA, CAD) has been rendered
C14_Witness ==
    /\ mounted
    /\ pending = <<>>
    /\ hist = [toggleLocation |-> 0, toggleLoginStatus |-> 1, renders |-> 1]
    /\ Origin = [isLoggedIn |-> "true", userLocation |-> "CA",
                 currencyCode |-> "CAD"]
    /\ state = [isLoggedIn |-> "false", userLocation |-> "CA",
                currencyCode |-> "CAD"]

----------------------------------------------------------------------------
(* C15 *)

\* the updates of both buttons that a render has applied since the mount
Applied(name) ==
    hist[name] - Cardinality({k \in 1..Len(pending) : pending[k] = name})

\* C15: whenever exactly two login toggles have been applied since the mount,
\* with any number of location cycles before, between and after them,
\* isLoggedIn is the value the container was mounted with; after one it is
\* not.
C15_ToggleLoginInvolution ==
    mounted =>
       /\ Applied("toggleLoginStatus") = 2 => state.isLoggedIn = Origin.isLoggedIn
       /\ Applied("toggleLoginStatus") = 1 => state.isLoggedIn # Origin.isLoggedIn

\* two login toggles rendered apart, location cycles around them, from a
\* logged-out mount
C15_Witness ==
    /\ mounted
    /\ pending = <<>>
    /\ hist.toggleLoginStatus = 2
    /\ hist.toggleLocation >= 3
    /\ hist.renders >= 4
    /\ Origin.isLoggedIn = "false"
    /\ state.isLoggedIn = "false"

----------------------------------------------------------------------------
(* C16 *)

\* C16: a useUserContext call made with no UserProvider rendered throws the
\* Error and returns no value; a call made below the rendered UserProvider
\* never throws and returns the provider's current state together with the
\* two functions, also when isLoggedIn is false.
C16_AccessorNeedsProvider ==
    consumed.read =>
       IF mounted
       THEN /\ consumed.threw = "none"
            /\ consumed.value.isLoggedIn = state.isLoggedIn
            /\ consumed.value.userLocation = state.userLocation
            /\ consumed.value.currencyCode = state.currencyCode
            /\ consumed.value.toggleLocation = "function"
            /\ consumed.value.toggleLoginStatus = "function"
       ELSE /\ consumed.threw = ProviderMissing
            /\ consumed.value = NoContextValue

\* a consumer was rendered with no provider above it, and got the Error
C16_Witness ==
    /\ ~mounted
    /\ consumed.read
    /\ consumed.threw = "useUserContext must be used within a UserProvider"

\* a consumer below the provider read a logged-out state without an Error
C16_WitnessLoggedOut ==
    /\ mounted
    /\ consumed.read
    /\ consumed.threw = "none"
    /\ state.isLoggedIn = "false"
    /\ consumed.value.isLoggedIn = "false"

----------------------------------------------------------------------------
(* C17 *)

ClientState == <<state, pending, mounted>>

\* C17: no step that changes the client container (a click, a render, a load
\* of the page) changes the store or a call on it, and no step of the store
\* (a call made, a timer tick, a completion with its write and its
\* revalidatePath) changes the client container; nothing copies the store's
\* currency into the container or back.
C17_NoReconciliation ==
    [][/\ ClientState' # ClientState => UNCHANGED <<db, calls, invalidations, seq>>
       /\ <<db, calls, invalidations, seq>>' # <<db, calls, invalidations, seq>>
             => UNCHANGED <<ClientState, consumed, hist, serverInitialData>>
       /\ (toggleLocation \/ toggleLoginStatus \/ UserProviderRender)
             => db' = db
       /\ (\E i \in 1..Len(calls) :
               updateUserCurrencyResume(i) \/ toggleFeatureFlagResume(i))
             => state' = state]_vars

\* the store holds the written XXX and has notified, a flag toggle has
\* completed, and the container, cycled once from (CA, CAD), holds EUR
C17_Witness ==
    /\ mounted
    /\ pending = <<>>
    /\ hist.toggleLocation = 1
    /\ state.currencyCode = "EUR"
    /\ db.USER_PREFERENCES.currency = "XXX"
    /\ \E i \in Updates : IsDone(i) /\ calls[i].wrote = "XXX"
                             /\ InvalidationsBy(i) # {}
    /\ \E i \in Toggles : IsDone(i) /\ InvalidationsBy(i) # {}

----------------------------------------------------------------------------
(* C18 *)

\* C18: the store starts as USER_PREFERENCES {currency USD, theme light} with
\* currencyToggleEnabled true; in every reachable state it still has both of
\* its objects with their fields, and theme is light; and a step changes
\* USER_PREFERENCES only when it completes an updateUserCurrency call, and
\* then only its currency, to the value that call submitted.
C18_StoreLifecycle ==
    /\ db.USER_PREFERENCES = [currency |-> "USD", theme |-> "light"]
    /\ db.FEATURE_FLAGS.currencyToggleEnabled = "true"
    /\ [](/\ DOMAIN db = {"USER_PREFERENCES", "FEATURE_FLAGS"}
          /\ DOMAIN db.USER_PREFERENCES = {"currency", "theme"}
          /\ "currencyToggleEnabled" \in DOMAIN db.FEATURE_FLAGS
          /\ db.USER_PREFERENCES.theme = "light")
    /\ [][db'.USER_PREFERENCES # db.USER_PREFERENCES =>
            \E i \in 1..Len(calls) :
               /\ calls[i].kind = "updateUserCurrency"
               /\ calls[i].pc = "delay" /\ calls'[i].pc = "done"
               /\ db'.USER_PREFERENCES =
                     [currency |-> calls[i].arg, theme |-> "light"]]_vars

\* a completed updateUserCurrency has changed the currency, a completed
\* toggle the flag, and theme is still light
C18_Witness ==
    /\ db.USER_PREFERENCES = [currency |-> "EUR", theme |-> "light"]
    /\ db.FEATURE_FLAGS.currencyToggleEnabled = "false"
    /\ \E i \in Updates : IsDone(i) /\ calls[i].wrote = "EUR"
    /\ \E i \in Toggles : IsDone(i)

----------------------------------------------------------------------------
(* C19 *)

MutationKinds == {"updateUserCurrency", "toggleFeatureFlag"}

\* call i is a mutation that has completed: fulfilled, its write applied to
\* the store at its completion, followed by its one revalidatePath
Completed(i) ==
    /\ IsDone(i)
    /\ calls[i].outcome = "fulfilled"
    /\ calls[i].wrote # "undefined"
    /\ calls[i].kind = "updateUserCurrency" => calls[i].wrote = calls[i].arg
    /\ Cardinality(InvalidationsBy(i)) = 1

\* C19: while the event loop keeps running, every updateUserCurrency and
\* toggleFeatureFlag call that was made completes, whatever other calls are
\* in flight; a call is pending until it is fulfilled, nothing else: it is
\* not rejected, not dropped and not started again, and it notifies once,
\* at its completion.
C19_MutationsComplete ==
    /\ \A i \in 1..MaxFairCalls :
          (Len(calls) >= i /\ calls[i].kind \in MutationKinds) ~>
             (Len(calls) >= i /\ Completed(i))
    /\ [](\A i \in Mutations :
             /\ calls[i].outcome \in {"pending", "fulfilled"}
             /\ IsDone(i) <=> calls[i].outcome = "fulfilled"
             /\ InvalidationsBy(i) # {} => Completed(i))
    /\ [][\A i \in 1..Len(calls) :
             /\ calls'[i].kind = calls[i].kind /\ calls'[i].arg = calls[i].arg
             /\ IsDone(i) => calls'[i] = calls[i]]_vars

\* an updateUserCurrency and a toggleFeatureFlag, made while the other was in
\* flight, have both completed
C19_Witness ==
    \E i \in Updates, j \in Toggles :
       /\ Completed(i) /\ Completed(j)
       /\ calls[i].start < calls[j].end
       /\ calls[j].start < calls[i].end

----------------------------------------------------------------------------
(* C20 *)

\* the location n cycles after `location`, read off the written-out cycle; a
\* location outside the cycle enters it at US
CycledFrom(location, n) ==
    IF n = 0 THEN location
    ELSE IF location \in CycleLocations THEN SuccessorN(location, n)
    ELSE SuccessorN("US", n - 1)

\* isLoggedIn after n login toggles
FlippedFrom(isLoggedIn, n) ==
    IF n % 2 = 0 THEN isLoggedIn
    ELSE IF isLoggedIn = "true" THEN "false" ELSE "true"

\* C20: in every state the container holds the mounted state advanced by
\* exactly as many cycle steps as location cycles have been applied since the
\* mount, and flipped exactly as many times as login toggles have been
\* applied, however many of them each render applied at once; the consumers
\* read that state at the render that applied them.
C20_UpdatesApplyToLatestState ==
    mounted =>
       LET cycles == Applied("toggleLocation")
           flips == Applied("toggleLoginStatus")
           location == CycledFrom(Origin.userLocation, cycles)
       IN /\ state.userLocation = location
          /\ state.currencyCode = (IF cycles = 0 THEN Origin.currencyCode
                                   ELSE PairedCurrency(location))
          /\ state.isLoggedIn = FlippedFrom(Origin.isLoggedIn, flips)
          /\ consumed.value.userLocation = state.userLocation
          /\ consumed.value.currencyCode = state.currencyCode
          /\ consumed.value.isLoggedIn = state.isLoggedIn

\* three location cycles clicked back to back from (CA, CAD) and applied by
\* one render have advanced three entries, to (JP, JPY)
C20_Witness ==
    /\ mounted
    /\ pending = <<>>
    /\ hist = [toggleLocation |-> 3, toggleLoginStatus |-> 0, renders |-> 1]
    /\ Origin.userLocation = "CA" /\ Origin.currencyCode = "CAD"
    /\ state.userLocation = "JP" /\ state.currencyCode = "JPY"
    /\ consumed.value.userLocation = "JP"

\* three login toggles clicked back to back and applied by one render have
\* flipped isLoggedIn three times
C20_WitnessLogin ==
    /\ mounted
    /\ pending = <<>>
    /\ hist = [toggleLocation |-> 0, toggleLoginStatus |-> 3, renders |-> 1]
    /\ Origin.isLoggedIn = "true"
    /\ state.isLoggedIn = "false"

----------------------------------------------------------------------------
(* C21 *)

FivePairs ==
    {<<"US", "USD">>, <<"CA", "CAD">>, <<"EU", "EUR">>, <<"UK", "GBP">>,
     <<"JP", "JPY">>}

\* C21: when the container was mounted with a userLocation that is none of
\* the five, the first location cycle applied leaves exactly (US, USD), and
\* in every later state (userLocation, currencyCode) is one of the five
\* entries of the cycle, moving from each entry to the one after it.
C21_FallbackEntersCycle ==
    /\ [](mounted /\ Origin.userLocation \notin CycleLocations =>
            /\ Applied("toggleLocation") = 1 =>
                  <<state.userLocation, state.currencyCode>> = <<"US", "USD">>
            /\ Applied("toggleLocation") >= 1 =>
                  <<state.userLocation, state.currencyCode>> \in FivePairs)
    /\ [][(UserProviderRender /\ <<state.userLocation, state.currencyCode>> \in FivePairs)
            => <<state'.userLocation, state'.currencyCode>> \in FivePairs]_vars

\* mounted on (undefined, USD), the container went to (US, USD) at the first
\* cycle and has cycled on from there to (EU, EUR)
C21_Witness ==
    /\ mounted
    /\ pending = <<>>
    /\ Origin.userLocation = "undefined" /\ Origin.currencyCode = "USD"
    /\ hist.toggleLocation = 3
    /\ hist.renders = 3
    /\ state.userLocation = "EU" /\ state.currencyCode = "EUR"

----------------------------------------------------------------------------
(* C22 *)

\* C22: whenever the page is mounted, DataFlowVisualization shows "State
\* matches server initial values" exactly when the container's isLoggedIn,
\* userLocation and currencyCode all equal the server-derived values (as in
\* the initial state, and after five location cycles and two login toggles),
\* and "State has been modified client-side" exactly when one of them
\* differs.
C22_ComparisonAccurate ==
    mounted =>
       /\ shown \in {StateMatches, StateModified}
       /\ shown = StateMatches <=> state = Origin

----------------------------------------------------------------------------
(* C23 *)

\* C23: in every output of ServerActionsDemoPage the props are the snapshot
\* getServerPreferences returned to that render; the currency form is in the
\* output exactly when the snapshot's currencyToggleEnabled is true, the
\* "Feature Disabled" notice exactly when it is false or missing, and the
\* flag form always.
C23_FeatureGatedForm ==
    page.rendered =>
       /\ page.by \in Reads /\ IsDone(page.by)
       /\ page.props = calls[page.by].result
       /\ page.manager.currencyForm <=> page.props.currencyToggleEnabled = "true"
       /\ page.manager.notice <=>
             page.props.currencyToggleEnabled \in {"false", "undefined"}
       /\ page.manager.currencyForm # page.manager.notice
       /\ page.manager.flagForm

\* a render after a completed toggle: the notice and the flag form are
\* there, the currency form is not
C23_Witness ==
    /\ page.rendered
    /\ page.props.currencyToggleEnabled = "false"
    /\ page.manager.notice
    /\ ~page.manager.currencyForm
    /\ page.manager.flagForm
    /\ \E j \in Toggles : IsDone(j) /\ calls[j].end < calls[page.by].end

\* a render with the flag on: the currency form is there, the notice is not
C23_WitnessEnabled ==
    /\ page.rendered
    /\ page.props.currencyToggleEnabled = "true"
    /\ page.manager.currencyForm
    /\ ~page.manager.notice

----------------------------------------------------------------------------
(* C25 *)

FlagOff == db.FEATURE_FLAGS["currencyToggleEnabled"] = "false"

\* C25 as stated: no step changes the store's currency in a state where
\* currencyToggleEnabled is false.
C25_FlagGatesWrites ==
    [][db'.USER_PREFERENCES.currency # db.USER_PREFERENCES.currency
          => ~FlagOff]_vars

\* C25: the flag does not gate the write. Every updateUserCurrency call that
\* completes while currencyToggleEnabled is false still sets the currency to
\* the value it submitted and leaves the flag false; while the flag is false
\* the currency changes by such a completion and by nothing else.
C25_FlagGatesFormOnly ==
    [][FlagOff =>
          /\ \A i \in Updates :
                (calls[i].pc = "delay" /\ calls'[i].pc = "done") =>
                   /\ db'.USER_PREFERENCES.currency = calls[i].arg
                   /\ db'.FEATURE_FLAGS = db.FEATURE_FLAGS
          /\ db'.USER_PREFERENCES.currency # db.USER_PREFERENCES.currency =>
                \E i \in Updates :
                   /\ calls[i].pc = "delay" /\ calls'[i].pc = "done"
                   /\ calls[i].arg = db'.USER_PREFERENCES.currency]_vars

\* an updateUserCurrency made before any toggle had completed, so with the
\* flag on, changed the currency after a toggle had switched the flag off
C25_Witness ==
    \E i \in Updates, j \in Toggles :
       /\ IsDone(i) /\ IsDone(j)
       /\ calls[j].arg = "currencyToggleEnabled"
       /\ calls[j].before = "true" /\ calls[j].wrote = "false"
       /\ \A k \in Toggles : IsDone(k) => calls[k].end > calls[i].start
       /\ \A k \in Toggles : IsDone(k) /\ calls[k].end < calls[i].end => k = j
       /\ calls[j].end < calls[i].end
       /\ calls[i].before = "USD" /\ calls[i].wrote = "EUR"
       /\ db.USER_PREFERENCES.currency = "EUR"

----------------------------------------------------------------------------
(* C26 *)

TogglesOf(name) == {t \in Toggles : calls[t].arg = name}

\* the value a flag starts from: its value in the store as loaded, false for
\* a flag the store does not hold yet
InitialFlag(name) ==
    IF name = "currencyToggleEnabled" THEN "true" ELSE "false"

Negation(b) == IF b = "true" THEN "false" ELSE "true"

\* C26: whenever all toggleFeatureFlag calls made for a flag have completed,
\* n of them and at least one, in whatever order and overlap, the flag holds
\* its initial value if n is even and the negation if n is odd (a flag the
\* store did not hold counts as initially false); while none has completed
\* the flag is as the store was loaded.
C26_NoLostToggle ==
    \A name \in FlagNameValues :
       LET n == Cardinality(TogglesOf(name))
       IN /\ (n >= 1 /\ \A t \in TogglesOf(name) : IsDone(t)) =>
                db.FEATURE_FLAGS[name] =
                   (IF n % 2 = 0 THEN InitialFlag(name)
                    ELSE Negation(InitialFlag(name)))
          /\ (\A t \in TogglesOf(name) : ~IsDone(t)) =>
                db.FEATURE_FLAGS[name] =
                   (IF name = "currencyToggleEnabled" THEN "true"
                    ELSE "undefined")

\* two toggles of currencyToggleEnabled, the second made while the first
\* was in flight, have both completed and the flag is true again
C26_Witness ==
    \E t \in Toggles, u \in Toggles :
       /\ t # u
       /\ calls[t].arg = "currencyToggleEnabled"
       /\ calls[u].arg = "currencyToggleEnabled"
       /\ IsDone(t) /\ IsDone(u)
       /\ calls[t].start < calls[u].start /\ calls[u].start < calls[t].end
       /\ Cardinality(TogglesOf("currencyToggleEnabled")) = 2
       /\ db.FEATURE_FLAGS["currencyToggleEnabled"] = "true"

----------------------------------------------------------------------------
(* C27 *)

\* C27: in every state of the page as page.js loads it, whatever clicks on
\* the two buttons have been made and rendered, (userLocation, currencyCode)
\* of the container is one of (US, USD), (CA, CAD), (EU, EUR), (UK, GBP),
\* (JP, JPY).
C27_LocationCurrencyPaired ==
    mounted => <<state.userLocation, state.currencyCode>> \in FivePairs

\* cycled and toggled from the mounted (CA, CAD), the container holds the
\* pair (UK, GBP)
C27_Witness ==
    /\ mounted
    /\ pending = <<>>
    /\ Origin.userLocation = "CA" /\ Origin.currencyCode = "CAD"
    /\ hist.toggleLocation = 2
    /\ hist.toggleLoginStatus >= 1
    /\ state.userLocation = "UK" /\ state.currencyCode = "GBP"

----------------------------------------------------------------------------
(* C28 *)

CardFlag(flag) == IF flag = "true" THEN "ENABLED" ELSE "DISABLED"

\* C28: in every output of ServerActionsDemoPage the currency, theme and
\* flag passed to PreferencesManager as props are the ones its status card
\* shows from the store; the step that produces the output takes both from
\* the store as it is in that step and changes nothing in it, also while
\* mutations are in flight.
C28_RenderConsistent ==
    /\ [](page.rendered =>
            /\ page.card.currency = page.props.currency
            /\ page.card.theme = page.props.theme
            /\ page.card.flag = CardFlag(page.props.currencyToggleEnabled)
            /\ page.manager.currency = page.card.currency
            /\ page.manager.theme = page.card.theme)
    /\ [][page' # page =>
            /\ db' = db
            /\ page'.props.currency = db.USER_PREFERENCES.currency
            /\ page'.props.theme = db.USER_PREFERENCES.theme
            /\ page'.props.currencyToggleEnabled =
                  db.FEATURE_FLAGS["currencyToggleEnabled"]
            /\ page'.card.currency = db.USER_PREFERENCES.currency
            /\ \A j \in Mutations : calls'[j].pc = calls[j].pc]_vars

\* the page was rendered between two completions: after a toggle had
\* switched the flag off and while an updateUserCurrency, since completed,
\* was in flight; it shows USD and DISABLED in the card and in the props
C28_Witness ==
    /\ page.rendered
    /\ page.card.currency = "USD" /\ page.props.currency = "USD"
    /\ page.card.flag = "DISABLED" /\ page.props.currencyToggleEnabled = "false"
    /\ db.USER_PREFERENCES.currency = "EUR"
    /\ \E i \in Updates :
          /\ IsDone(i)
          /\ calls[i].start < calls[page.by].end
          /\ calls[page.by].end < calls[i].end
    /\ \E j \in Toggles : IsDone(j) /\ calls[j].end < calls[page.by].end

----------------------------------------------------------------------------
(* C29 *)

\* C29: a render that applies one toggleLocation leaves isLoggedIn as it was,
\* true or false, while it moves the location on.
C29_CycleKeepsLogin ==
    [][RenderOf("toggleLocation") =>
          /\ state'.isLoggedIn = state.isLoggedIn
          /\ state'.isLoggedIn \in {"true", "false"}
          /\ state'.userLocation # state.userLocation]_vars

\* one cycle from a logged-out mount on (US, USD): still logged out, at
\* (CA, CAD)
C29_Witness ==
    /\ mounted
    /\ pending = <<>>
    /\ hist = [toggleLocation |-> 1, toggleLoginStatus |-> 0, renders |-> 1]
    /\ Origin.isLoggedIn = "false" /\ Origin.userLocation = "US"
    /\ state.isLoggedIn = "false"
    /\ state.userLocation = "CA" /\ state.currencyCode = "CAD"

----------------------------------------------------------------------------
(* C30 *)

Completes(i) == calls[i].pc = "delay" /\ calls'[i].pc = "done"

\* C30: the step that completes an updateUserCurrency leaves theme and every
\* feature flag as they were; the step that completes a toggleFeatureFlag of
\* a flag leaves currency, theme and every other flag as they were; every
\* other step, the calls and returns of getServerPreferences with the render
\* of the page among them, leaves the whole store as it was.
C30_MutationsTouchOwnField ==
    [][/\ \A i \in Updates : Completes(i) =>
             /\ db'.USER_PREFERENCES.theme = db.USER_PREFERENCES.theme
             /\ db'.FEATURE_FLAGS = db.FEATURE_FLAGS
       /\ \A i \in Toggles : Completes(i) =>
             /\ db'.USER_PREFERENCES = db.USER_PREFERENCES
             /\ \A k \in FlagKeys \ {calls[i].arg} :
                   db'.FEATURE_FLAGS[k] = db.FEATURE_FLAGS[k]
       /\ (\A i \in Mutations : ~Completes(i)) => db' = db]_vars

\* a toggle of flag x, an updateUserCurrency and a render have all
\* completed: currency and x are changed, theme and currencyToggleEnabled
\* are not
C30_Witness ==
    /\ page.rendered
    /\ \E i \in Updates : IsDone(i) /\ calls[i].wrote = "EUR"
    /\ \E j \in Toggles : IsDone(j) /\ calls[j].arg = "x"
    /\ db = [USER_PREFERENCES |-> [currency |-> "EUR", theme |-> "light"],
             FEATURE_FLAGS |-> [currencyToggleEnabled |-> "true", x |-> "true"]]

====
